---------------------------- MODULE Spec2Model ----------------------------
(***************************************************************************)
(* Model of the ldshell "maintenance" command                              *)
(* (logdevice/ops/ldshell/autoload/commands/maintenance.py): the shard     *)
(* state-satisfaction predicate, the severity classifiers, the filter over *)
(* maintenance views, the compact and expanded renderers and the list /    *)
(* show / remove commands.                                                 *)
(*                                                                         *)
(* One invocation is modelled at a time.  call holds the operation and its *)
(* arguments, pc the position of the invocation, ret what it returned,     *)
(* exc the exception that left it (NoExc when none did).  cv is the        *)
(* cluster view the invocation works on, stdout what it printed and        *)
(* removed the requests it sent to remove_maintenances.                    *)
(***************************************************************************)
EXTENDS Integers, Sequences, FiniteSets, TLC

VARIABLES cv, now, call, pc, ret, exc, stdout, removed

vars == <<cv, now, call, pc, ret, exc, stdout, removed>>

None == "None"
NoExc == "NoExc"

\* What an operation gives: the value it returns or the exception it raises.
Raise(e) == [exc |-> e, val |-> <<>>]

Return(v) == [exc |-> NoExc, val |-> v]

(***************************************************************************)
(* Enumerations imported by the module.                                    *)
(***************************************************************************)
ShardOperationalState ==
    {"UNKNOWN", "ENABLED", "MAY_DISAPPEAR", "DRAINED", "MIGRATING_DATA",
     "ENABLING", "PROVISIONING", "PASSIVE_DRAINING", "INVALID"}

MaintenanceProgress ==
    {"UNKNOWN", "BLOCKED_UNTIL_SAFE", "IN_PROGRESS", "COMPLETED"}

MaintenancePriority == {"IMMINENT", "HIGH", "MEDIUM", "LOW"}

MaintenanceStatus ==
    {"NOT_STARTED", "STARTED", "AWAITING_DATA_REBUILDING",
     "BLOCKED_UNTIL_SAFE", "REBUILDING_IS_BLOCKED", "COMPLETED"}

\* The names of the two enumerations the renderers sort by name, in the
\* order Python compares str: by code point.
OperationalStateNames ==
    <<"DRAINED", "ENABLED", "ENABLING", "INVALID", "MAY_DISAPPEAR",
      "MIGRATING_DATA", "PASSIVE_DRAINING", "PROVISIONING", "UNKNOWN">>

MaintenanceStatusNames ==
    <<"AWAITING_DATA_REBUILDING", "BLOCKED_UNTIL_SAFE", "COMPLETED",
      "NOT_STARTED", "REBUILDING_IS_BLOCKED", "STARTED">>

(***************************************************************************)
(* _satisfy_shard_op_state and _color_shard_op_state.                      *)
(***************************************************************************)
SatisfyDrainedByMigrating(cur, tgt) ==
    IF tgt = "MAY_DISAPPEAR"
    THEN cur \in {"MAY_DISAPPEAR", "DRAINED", "PROVISIONING", "MIGRATING_DATA"}
    ELSE IF tgt = "DRAINED"
         THEN cur \in {"DRAINED", "MIGRATING_DATA"}
         ELSE FALSE

_satisfy_shard_op_state(cur, tgt) ==
    IF tgt = "MAY_DISAPPEAR"
    THEN IF cur \in {"MAY_DISAPPEAR", "DRAINED", "PROVISIONING", "MIGRATING_DATA"}
         THEN TRUE
         ELSE FALSE
    ELSE IF tgt = "DRAINED"
         THEN IF cur = "DRAINED" THEN TRUE ELSE FALSE
         ELSE FALSE

_color_shard_op_state(cur, tgt) ==
    IF _satisfy_shard_op_state(cur, tgt) THEN "green" ELSE "yellow"

(***************************************************************************)
(* The severity classifiers.  A status value carries its enumeration, as   *)
(* _color dispatches on type(arg).                                         *)
(***************************************************************************)
Progress(name) == [type |-> "MaintenanceProgress", name |-> name]

Status(name) == [type |-> "MaintenanceStatus", name |-> name]

Priority(name) == [type |-> "MaintenancePriority", name |-> name]

ColorStatusBlockedAsWarn(arg) ==
    IF arg.name = "BLOCKED_UNTIL_SAFE" THEN "red"
    ELSE IF arg.name = "COMPLETED" THEN "green" ELSE "yellow"

_color_maintenance_status(arg) ==
    IF arg.name \in {"BLOCKED_UNTIL_SAFE", "REBUILDING_IS_BLOCKED"}
    THEN "red"
    ELSE IF arg.name = "COMPLETED" THEN "green" ELSE "yellow"

_color_maintenance_overall_status(arg) ==
    IF arg.name = "COMPLETED" THEN "green"
    ELSE IF arg.name = "BLOCKED_UNTIL_SAFE" THEN "red"
    ELSE IF arg.name = "UNKNOWN" THEN "red"
    ELSE IF arg.name = "IN_PROGRESS" THEN "yellow"
    ELSE "white"

_color_priority(arg) ==
    IF arg = "IMMINENT" THEN "magenta"
    ELSE IF arg = "HIGH" THEN "red"
    ELSE IF arg = "LOW" THEN "blue"
    ELSE "white"

ColorWithDefault(arg) ==
    IF arg.type = "MaintenanceProgress"
    THEN Return(_color_maintenance_overall_status(arg))
    ELSE IF arg.type = "MaintenanceStatus"
    THEN Return(_color_maintenance_status(arg))
    ELSE Return("white")

\* The dict lookup by type(arg) raises KeyError for any other type.
_color(arg) ==
    IF arg.type = "MaintenanceProgress"
    THEN Return(_color_maintenance_overall_status(arg))
    ELSE IF arg.type = "MaintenanceStatus"
    THEN Return(_color_maintenance_status(arg))
    ELSE Raise("KeyError")

(***************************************************************************)
(* Rendered text.  A cell is its text, as the parts formatted into it, and *)
(* the colour it was given by colored(); a plain cell has colour None.     *)
(***************************************************************************)
Colored(text, color) == [text |-> text, color |-> color]

Plain(text) == [text |-> text, color |-> None]

Dash == Plain(<<"-">>)

(***************************************************************************)
(* The empty cluster view and the idle values of the variables an          *)
(* invocation does not use.                                                *)
(***************************************************************************)
EmptyClusterView == [mvs |-> <<>>, names |-> <<>>, nodes |-> <<>>]

(***************************************************************************)
(* Optional values.  An argument or attribute that may be None is a        *)
(* sequence: <<>> for None, <<v>> for the value v.                         *)
(***************************************************************************)
Opt(S) == {<<>>} \cup {<<v>> : v \in S}

Range(s) == {s[i] : i \in 1..Len(s)}

(***************************************************************************)
(* The cluster view.  names maps the node names that resolve to their node *)
(* index; get_node_index raises NodeNotFoundError for any other name.      *)
(***************************************************************************)
NodeNames == ("n0" :> 0) @@ ("n1" :> 1)

UnknownNodeName == "nX"

get_node_index(cluster_view, node_name) ==
    IF node_name \in DOMAIN cluster_view.names
    THEN Return(cluster_view.names[node_name])
    ELSE Raise("NodeNotFoundError")

(***************************************************************************)
(* Maintenance views: the attributes the filter and the renderers read.    *)
(* priority, shard_target_state and sequencer_target_state are None when   *)
(* unset.  shards lists the shards under the maintenance, each with what   *)
(* the view's per-shard accessors return for it: state is the shard state  *)
(* (<<>> when get_shard_state returns None), status its maintenance status *)
(* and last_updated_at its timestamp (<<>> when None).                     *)
(***************************************************************************)
Shard(node_index, shard_index, state, status, last_updated_at) ==
    [node_index |-> node_index, shard_index |-> shard_index, state |-> state,
     status |-> status, last_updated_at |-> last_updated_at]

\* The distinct elements of seq, in the order of their first occurrence.
RECURSIVE Distinct(_)
Distinct(seq) ==
    IF seq = <<>> THEN <<>>
    ELSE LET rest == Distinct(SubSeq(seq, 1, Len(seq) - 1))
             last == seq[Len(seq)]
         IN  IF last \in Range(rest) THEN rest ELSE Append(rest, last)

NodesOf(shards) == Distinct([i \in 1..Len(shards) |-> shards[i].node_index])

NumDone(shards) ==
    Cardinality({i \in 1..Len(shards) : shards[i].status = "COMPLETED"})

\* A maintenance of `shards` (and of the sequencers of `sequencer_nodes`).
View(user, internal, status, blocked, completed, in_progress, priority, shard_target_state, shards, sequencer_nodes, impact) ==
    [group_id |-> "", user |-> user, is_internal |-> internal,
     overall_status |-> status, is_blocked |-> blocked,
     is_completed |-> completed, is_in_progress |-> in_progress,
     priority |-> priority, expires_on |-> <<>>,
     affected_node_indexes |-> Distinct(NodesOf(shards) \o sequencer_nodes),
     affected_storage_node_indexes |-> NodesOf(shards),
     affects_shards |-> shards # <<>>,
     shard_target_state |-> IF shards # <<>> THEN shard_target_state ELSE None,
     shards |-> shards,
     num_shards_done |-> NumDone(shards),
     num_shards_total |-> Len(shards),
     are_all_shards_done |-> NumDone(shards) = Len(shards),
     affects_sequencers |-> sequencer_nodes # <<>>,
     sequencer_target_state |->
         IF sequencer_nodes # <<>> THEN "DISABLED" ELSE None,
     sequencer_nodes |-> sequencer_nodes,
     num_sequencers_done |-> IF completed THEN Len(sequencer_nodes) ELSE 0,
     num_sequencers_total |-> Len(sequencer_nodes),
     are_all_sequencers_done |-> completed \/ sequencer_nodes = <<>>,
     sequencer_status |-> IF completed THEN "COMPLETED" ELSE "STARTED",
     last_check_impact_result |-> impact]

get_shards_by_node_index(mv, ni) ==
    LET OnNode(shard) == shard.node_index = ni
    IN  SelectSeq(mv.shards, OnNode)

Blocked(user, internal, priority, shards, sequencer_nodes) ==
    View(user, internal, "BLOCKED_UNTIL_SAFE", TRUE, FALSE, TRUE, priority,
         "DRAINED", shards, sequencer_nodes, <<"impact">>)

InProgress(user, internal, priority, shards, sequencer_nodes) ==
    View(user, internal, "IN_PROGRESS", FALSE, FALSE, TRUE, priority,
         "MAY_DISAPPEAR", shards, sequencer_nodes, <<>>)

Completed(user, internal, priority, shards, sequencer_nodes) ==
    View(user, internal, "COMPLETED", FALSE, TRUE, FALSE, priority,
         "DRAINED", shards, sequencer_nodes, <<>>)

Draining(node_index, shard_index) ==
    Shard(node_index, shard_index, <<"MIGRATING_DATA">>, "STARTED", <<1>>)

DrainedShard(node_index, shard_index) ==
    Shard(node_index, shard_index, <<"DRAINED">>, "COMPLETED", <<2>>)

\* The maintenances a snapshot is drawn from: both users, internal and
\* user-made ones, every progress, priority unset, MEDIUM and HIGH, shards
\* on one and on two nodes, sequencers, and a sequencer on a node that has
\* no shard under the maintenance.
SampleViews ==
    { Blocked("alice", FALSE, None, <<Draining(0, 0), DrainedShard(0, 1)>>, <<>>),
      InProgress("alice", TRUE, "HIGH", <<Draining(1, 0)>>, <<>>),
      Completed("bob", FALSE, "MEDIUM",
                <<DrainedShard(0, 0), DrainedShard(1, 0)>>, <<>>),
      Completed("bob", TRUE, None, <<>>, <<0>>),
      InProgress("bob", FALSE, "HIGH", <<Draining(1, 1)>>, <<0>>) }

MaxRecords == 2

GroupIds == <<"m1", "m2", "m3">>

\* Group ids are unique in a snapshot: the i-th maintenance gets GroupIds[i].
WithIds(views) ==
    [i \in 1..Len(views) |-> [views[i] EXCEPT !.group_id = GroupIds[i]]]

Snapshots ==
    UNION { {WithIds(s) : s \in [1..n -> SampleViews]} : n \in 0..MaxRecords }

\* A node view: shard_states holds, for each shard of the node, the
\* last_updated_at of its maintenance (<<>> when the shard state carries no
\* maintenance).
NodeView(node_index, node_name, shard_states) ==
    [node_index |-> node_index, node_name |-> node_name,
     sequencer_state |-> "ENABLED", shard_states |-> shard_states]

SampleNodes ==
    (0 :> NodeView(0, "n0", <<<<1>>, <<3>>>>)) @@
    (1 :> NodeView(1, "n1", <<<<2>>, <<1>>>>))

get_node_view(cluster_view, ni) == cluster_view.nodes[ni]

ClusterView(mvs, nodes) == [mvs |-> mvs, names |-> NodeNames, nodes |-> nodes]

ClusterViews == {ClusterView(s, SampleNodes) : s \in Snapshots}

(***************************************************************************)
(* The filter criteria of _filter_maintenance_views, each None or a value. *)
(***************************************************************************)
CriteriaNames ==
    {"ids", "users", "node_indexes", "node_names", "blocked", "completed",
     "in_progress", "priority", "include_internal_maintenances"}

CriteriaValues ==
    [ids |-> {{"m1"}, {"m2"}},
     users |-> {{"alice"}, {"bob"}},
     node_indexes |-> {{0}, {1}},
     node_names |-> {{"n0"}, {"n1"}, {"n0", UnknownNodeName}},
     blocked |-> BOOLEAN,
     completed |-> BOOLEAN,
     in_progress |-> BOOLEAN,
     priority |-> {"MEDIUM", "HIGH"},
     include_internal_maintenances |-> BOOLEAN]

NoCriteria == [k \in CriteriaNames |-> <<>>]

Present(c) == {k \in CriteriaNames : c[k] # <<>>}

MaxCriteria == 2

\* Every choice of at most MaxCriteria criteria, the rest None.
Criteria ==
    {c \in [ids : Opt(CriteriaValues.ids),
            users : Opt(CriteriaValues.users),
            node_indexes : Opt(CriteriaValues.node_indexes),
            node_names : Opt(CriteriaValues.node_names),
            blocked : Opt(CriteriaValues.blocked),
            completed : Opt(CriteriaValues.completed),
            in_progress : Opt(CriteriaValues.in_progress),
            priority : Opt(CriteriaValues.priority),
            include_internal_maintenances :
                Opt(CriteriaValues.include_internal_maintenances)] :
        Cardinality(Present(c)) <= MaxCriteria}

(***************************************************************************)
(* _filter_maintenance_views.  The function runs eagerly up to its return: *)
(* it resolves node_names (which may raise) and chains one generator       *)
(* expression per criterion that is not None.  A generator expression      *)
(* evaluates its condition when it is consumed, after the function has     *)
(* returned, and reads the function's locals as they are then.  ids_set    *)
(* and users_set are assigned once; node_indexes_set is assigned by the    *)
(* node_indexes branch and again by the node_names branch, so the          *)
(* condition of both generators reads the last value assigned.  val is the *)
(* list the consumed generator yields.                                     *)
(***************************************************************************)
Intersects(seq, set) == Range(seq) \cap set # {}

ResolveSkippingUnknown(cluster_view, node_names) ==
    Return({get_node_index(cluster_view, n).val :
               n \in {m \in node_names :
                         get_node_index(cluster_view, m).exc = NoExc}})

\* {cv.get_node_index(node_name=node_name) for node_name in node_names}
ResolveNodeNames(cluster_view, node_names) ==
    IF \E n \in node_names : get_node_index(cluster_view, n).exc # NoExc
    THEN Raise("NodeNotFoundError")
    ELSE Return({get_node_index(cluster_view, n).val : n \in node_names})

\* node_indexes_set as the generators find it when they run.
NodeIndexesSet(cluster_view, c) ==
    IF c.node_names # <<>>
    THEN ResolveNodeNames(cluster_view, c.node_names[1]).val
    ELSE IF c.node_indexes # <<>> THEN c.node_indexes[1] ELSE {}

FilterKeepingInternal(maintenance_views, cluster_view, c) ==
    maintenance_views

FilterInternal(maintenance_views, cluster_view, c) ==
    LET NotInternal(mv) == ~mv.is_internal
    IN  IF /\ c.include_internal_maintenances # <<>>
           /\ c.include_internal_maintenances[1] = FALSE
        THEN SelectSeq(maintenance_views, NotInternal)
        ELSE maintenance_views

_filter_maintenance_views(maintenance_views, cluster_view, c) ==
    IF /\ c.node_names # <<>>
       /\ ResolveNodeNames(cluster_view, c.node_names[1]).exc # NoExc
    THEN Raise(ResolveNodeNames(cluster_view, c.node_names[1]).exc)
    ELSE
    LET ById(mv) == mv.group_id \in c.ids[1]
        ByUser(mv) == mv.user \in c.users[1]
        ByNodeIndexes(mv) ==
            Intersects(mv.affected_node_indexes, NodeIndexesSet(cluster_view, c))
        ByNodeNames(mv) ==
            Intersects(mv.affected_node_indexes, NodeIndexesSet(cluster_view, c))
        ByPriority(mv) == mv.priority = c.priority[1]
        ByBlocked(mv) == mv.is_blocked = c.blocked[1]
        ByCompleted(mv) == mv.is_completed = c.completed[1]
        ByInProgress(mv) == mv.is_in_progress = c.in_progress[1]
        s0 == FilterInternal(maintenance_views, cluster_view, c)
        s1 == IF c.ids # <<>> THEN SelectSeq(s0, ById) ELSE s0
        s2 == IF c.users # <<>> THEN SelectSeq(s1, ByUser) ELSE s1
        s3 == IF c.node_indexes # <<>> THEN SelectSeq(s2, ByNodeIndexes) ELSE s2
        s4 == IF c.node_names # <<>> THEN SelectSeq(s3, ByNodeNames) ELSE s3
        s5 == IF c.priority # <<>> THEN SelectSeq(s4, ByPriority) ELSE s4
        s6 == IF c.blocked # <<>> THEN SelectSeq(s5, ByBlocked) ELSE s5
        s7 == IF c.completed # <<>> THEN SelectSeq(s6, ByCompleted) ELSE s6
        s8 == IF c.in_progress # <<>> THEN SelectSeq(s7, ByInProgress) ELSE s7
    IN  Return(s8)

\* naturaltime(value): value relative to the wall clock, read when called.
naturaltime(value) == now - value

\* A time cell: the "NEVER" and "-" placeholders, or a timestamp with its
\* naturaltime rendering.

Never == [text |-> "NEVER", time |-> 0, natural |-> 0]

NoTime == [text |-> "-", time |-> 0, natural |-> 0]

At(time) == [text |-> "time", time |-> time, natural |-> naturaltime(time)]

(***************************************************************************)
(* _render_compact: the header row and one row per maintenance view.  The  *)
(* affected cell holds the node indexes joined into it; the views of the   *)
(* model never reach the 30 characters at which shorten() cuts it.  The    *)
(* REASON and CREATED AT columns are left out.                             *)
(***************************************************************************)
CompactHeaders ==
    <<"MNT. ID", "AFFECTED", "STATUS", "SHARDS", "SEQUENCERS", "PRIORITY",
      "CREATED BY", "EXPIRES IN">>

ShardProgressIgnoringAffects(mv) ==
    Colored(<<mv.shard_target_state, mv.num_shards_done, mv.num_shards_total>>,
            IF mv.is_blocked THEN "red"
            ELSE IF ~mv.are_all_shards_done THEN "yellow" ELSE "green")

ShardProgressCell(mv) ==
    IF mv.affects_shards
    THEN Colored(<<mv.shard_target_state, mv.num_shards_done,
                   mv.num_shards_total>>,
                 IF mv.is_blocked THEN "red"
                 ELSE IF ~mv.are_all_shards_done THEN "yellow" ELSE "green")
    ELSE Dash

SequencerProgressCell(mv) ==
    IF mv.affects_sequencers
    THEN Colored(<<mv.sequencer_target_state, mv.num_sequencers_done,
                   mv.num_sequencers_total>>,
                 IF mv.are_all_sequencers_done THEN "green" ELSE "yellow")
    ELSE Dash

PriorityCell(mv) ==
    LET priority == IF mv.priority # None THEN mv.priority ELSE "MEDIUM"
    IN  Colored(<<priority>>, _color_priority(priority))

mv_to_row(mv, cluster_view) ==
    [id |-> mv.group_id,
     affected |-> mv.affected_node_indexes,
     status |-> Colored(<<mv.overall_status>>,
                        _color(Progress(mv.overall_status)).val),
     shard_progress |-> ShardProgressCell(mv),
     sequencer_progress |-> SequencerProgressCell(mv),
     priority_str |-> PriorityCell(mv),
     created_by |-> mv.user,
     expires_on |-> IF mv.expires_on # <<>>
                    THEN [text |-> "naturaltime", time |-> 0,
                          natural |-> naturaltime(mv.expires_on[1])]
                    ELSE NoTime]

_render_compact(maintenance_views, cluster_view) ==
    Return([headers |-> CompactHeaders,
            rows |-> [i \in 1..Len(maintenance_views) |->
                         mv_to_row(maintenance_views[i], cluster_view)]])

(***************************************************************************)
(* _render_expanded, from its innermost closures outwards.                 *)
(***************************************************************************)
_get_shard_operational_state(mv, shard) ==
    IF shard.state # <<>> THEN shard.state[1] ELSE "UNKNOWN"

\* sorted(Counter(values).items(), key=lambda x: x[0].name): one
\* (value, count) pair per distinct value, ordered by the value's name;
\* `order` lists the names of the enumeration in code point order.
RankIn(order, name) == CHOOSE i \in 1..Len(order) : order[i] = name

RECURSIVE SortedByName(_, _)
SortedByName(values, order) ==
    IF values = {} THEN <<>>
    ELSE LET first == CHOOSE x \in values :
                          \A y \in values : RankIn(order, x) <= RankIn(order, y)
         IN  <<first>> \o SortedByName(values \ {first}, order)

Count(seq, value) == Cardinality({i \in 1..Len(seq) : seq[i] = value})

CounterInInsertionOrder(seq, order) ==
    LET keys == Distinct(seq)
    IN  [i \in 1..Len(keys) |-> <<keys[i], Count(seq, keys[i])>>]

SortedCounter(seq, order) ==
    LET keys == SortedByName(Range(seq), order)
    IN  [i \in 1..Len(keys) |-> <<keys[i], Count(seq, keys[i])>>]

\* The first exception among results, NoExc when none raised.
FirstExc(results) ==
    IF \A i \in 1..Len(results) : results[i].exc = NoExc THEN NoExc
    ELSE results[CHOOSE i \in 1..Len(results) :
                    /\ results[i].exc # NoExc
                    /\ \A j \in 1..(i - 1) : results[j].exc = NoExc].exc

\* The values of results when none raised, else the first exception.
AllOf(results) ==
    IF FirstExc(results) = NoExc
    THEN Return([i \in 1..Len(results) |-> results[i].val])
    ELSE Raise(FirstExc(results))

Min(S) == CHOOSE x \in S : \A y \in S : x <= y

Section(title, body) == [title |-> title, body |-> body]

overview(mv, cluster_view) ==
    LET priority == IF mv.priority # None THEN mv.priority ELSE "MEDIUM"
    IN  Section("Overview",
            [id |-> mv.group_id,
             priority |-> Colored(<<priority>>, _color_priority(priority)),
             affected |-> <<mv.num_shards_total,
                            Len(mv.affected_storage_node_indexes),
                            mv.num_sequencers_total>>,
             status |-> Colored(<<mv.overall_status>>,
                                _color(Progress(mv.overall_status)).val),
             impact_result |->
                 /\ mv.overall_status \in {"BLOCKED_UNTIL_SAFE", "UNKNOWN"}
                 /\ mv.last_check_impact_result # <<>>,
             created_by |-> mv.user])

\* The CURRENT STATE cell of the aggregated table.
CurrentStateChips(mv, ni) ==
    LET shards == get_shards_by_node_index(mv, ni)
        states == [i \in 1..Len(shards) |->
                      _get_shard_operational_state(mv, shards[i])]
        counted == SortedCounter(states, OperationalStateNames)
    IN  [i \in 1..Len(counted) |->
            Colored(counted[i],
                    _color_shard_op_state(counted[i][1], mv.shard_target_state))]

\* The MAINTENANCE STATUS cell of the aggregated table.
MaintenanceStatusChips(mv, ni) ==
    LET shards == get_shards_by_node_index(mv, ni)
        mnt_statuses == [i \in 1..Len(shards) |-> shards[i].status]
        counted == SortedCounter(mnt_statuses, MaintenanceStatusNames)
    IN  [i \in 1..Len(counted) |->
            Colored(counted[i], _color(Status(counted[i][1])).val)]

\* The LAST UPDATED cell of the aggregated table: min() over the shard
\* states of the node view that carry a maintenance; min() of an empty
\* sequence raises ValueError.
LastUpdatedCell(nv) ==
    IF nv.shard_states # <<>>
    THEN LET times == {nv.shard_states[i][1] :
                          i \in {j \in 1..Len(nv.shard_states) :
                                    nv.shard_states[j] # <<>>}}
         IN  IF times = {} THEN Raise("ValueError") ELSE Return(At(Min(times)))
    ELSE Return(Never)

AggregatedRow(mv, cluster_view, ni) ==
    LET nv == get_node_view(cluster_view, ni)
        last_updated_at == LastUpdatedCell(nv)
    IN  IF last_updated_at.exc # NoExc THEN Raise(last_updated_at.exc)
        ELSE Return(
            [node_index |-> ni,
             node_name |-> nv.node_name,
             target_state |-> <<mv.shard_target_state,
                                Len(get_shards_by_node_index(mv, ni))>>,
             current_state |-> CurrentStateChips(mv, ni),
             maintenance_status |-> MaintenanceStatusChips(mv, ni),
             last_updated_at |-> last_updated_at.val])

aggregated(mv, cluster_view) ==
    AllOf([i \in 1..Len(mv.affected_storage_node_indexes) |->
              AggregatedRow(mv, cluster_view,
                            mv.affected_storage_node_indexes[i])])

ShardRowColouredByEquality(mv, shard) ==
    LET cur_op_state == _get_shard_operational_state(mv, shard)
    IN  [shard_index |-> shard.shard_index,
         current_state |->
             Colored(<<cur_op_state>>,
                     IF cur_op_state = mv.shard_target_state
                     THEN "green" ELSE "yellow"),
         target_state |-> mv.shard_target_state,
         maintenance_status |->
             Colored(<<shard.status>>, _color(Status(shard.status)).val),
         last_updated |->
             IF shard.last_updated_at # <<>>
             THEN At(shard.last_updated_at[1]) ELSE NoTime]

\* One row of a node's table in the per-shard view.
ShardRow(mv, shard) ==
    LET cur_op_state == _get_shard_operational_state(mv, shard)
    IN  [shard_index |-> shard.shard_index,
         current_state |->
             Colored(<<cur_op_state>>,
                     _color_shard_op_state(cur_op_state, mv.shard_target_state)),
         target_state |-> mv.shard_target_state,
         maintenance_status |->
             Colored(<<shard.status>>, _color(Status(shard.status)).val),
         last_updated |->
             IF shard.last_updated_at # <<>>
             THEN At(shard.last_updated_at[1]) ELSE NoTime]

shards_table(mv, cluster_view, ni) ==
    LET shards == get_shards_by_node_index(mv, ni)
    IN  [i \in 1..Len(shards) |-> ShardRow(mv, shards[i])]

one_node(mv, cluster_view, ni) ==
    LET nv == get_node_view(cluster_view, ni)
    IN  [node_index |-> nv.node_index, node_name |-> nv.node_name,
         shards_table |-> shards_table(mv, cluster_view, ni)]

expanded(mv, cluster_view) ==
    Return([i \in 1..Len(mv.affected_node_indexes) |->
               one_node(mv, cluster_view, mv.affected_node_indexes[i])])

\* <<>> stands for the None (or empty string) that one() filters out.
shards(mv, cluster_view, expand_shards) ==
    IF ~mv.affects_shards THEN Return(<<>>)
    ELSE LET f == IF expand_shards THEN expanded(mv, cluster_view)
                  ELSE aggregated(mv, cluster_view)
         IN  IF f.exc # NoExc THEN Raise(f.exc)
             ELSE Return(<<Section("Shard Maintenances",
                                   [expand_shards |-> expand_shards,
                                    table |-> f.val])>>)

SequencerRow(mv, cluster_view, n) ==
    LET nv == get_node_view(cluster_view, n)
        mnt_status == Status(mv.sequencer_status)
    IN  [node_index |-> nv.node_index,
         node_name |-> nv.node_name,
         target_state |-> mv.sequencer_target_state,
         current_state |-> Colored(<<nv.sequencer_state>>, _color(mnt_status).val),
         maintenance_status |->
             Colored(<<mnt_status.name>>, _color(mnt_status).val)]

sequencers(mv, cluster_view) ==
    IF ~mv.affects_sequencers THEN Return(<<>>)
    ELSE Return(<<Section("Sequencer Maintenances",
                     [i \in 1..Len(mv.sequencer_nodes) |->
                         SequencerRow(mv, cluster_view, mv.sequencer_nodes[i])])>>)

RECURSIVE Flatten(_)
Flatten(seqs) ==
    IF seqs = <<>> THEN <<>> ELSE Head(seqs) \o Flatten(Tail(seqs))

ImpactWheneverBlocked(mv, show_safety_check_results) ==
    IF mv.overall_status = "BLOCKED_UNTIL_SAFE"
    THEN Return(<<Section("Safety Check Impact",
                     [response |-> mv.last_check_impact_result,
                      shards |-> Flatten(
                          [i \in 1..Len(mv.affected_node_indexes) |->
                              get_shards_by_node_index(
                                  mv, mv.affected_node_indexes[i])]),
                      target_state |-> mv.shard_target_state])>>)
    ELSE Return(<<>>)

\* The arguments one() hands to safety.check_impact_string.
impact(mv, show_safety_check_results) ==
    IF mv.overall_status = "BLOCKED_UNTIL_SAFE" /\ show_safety_check_results
    THEN Return(<<Section("Safety Check Impact",
                     [response |-> mv.last_check_impact_result,
                      shards |-> Flatten(
                          [i \in 1..Len(mv.affected_node_indexes) |->
                              get_shards_by_node_index(
                                  mv, mv.affected_node_indexes[i])]),
                      target_state |-> mv.shard_target_state])>>)
    ELSE Return(<<>>)

\* The sections of one maintenance, joined by blank lines.
one(mv, cluster_view, expand_shards, show_safety_check_results) ==
    LET parts == AllOf(<<Return(<<overview(mv, cluster_view)>>),
                         shards(mv, cluster_view, expand_shards),
                         sequencers(mv, cluster_view),
                         impact(mv, show_safety_check_results)>>)
    IN  IF parts.exc # NoExc THEN Raise(parts.exc)
        ELSE Return(Flatten(parts.val))

_render_expanded(maintenance_views, cluster_view, expand_shards, show_safety_check_results) ==
    AllOf([i \in 1..Len(maintenance_views) |->
              one(maintenance_views[i], cluster_view, expand_shards,
                  show_safety_check_results)])

_render_expanded_with_shards(maintenance_views, cluster_view) ==
    _render_expanded(maintenance_views, cluster_view, TRUE, FALSE)

_render_expanded_with_safety_checks(maintenance_views, cluster_view) ==
    _render_expanded(maintenance_views, cluster_view, FALSE, TRUE)

RenderingMode ==
    {"COMPACT", "EXPANDED", "EXPANDED_WITH_SHARDS",
     "EXPANDED_WITH_SAFETY_CHECKS"}

_render(maintenance_views, cluster_view, mode) ==
    IF mode = "COMPACT" THEN _render_compact(maintenance_views, cluster_view)
    ELSE IF mode = "EXPANDED"
    THEN _render_expanded(maintenance_views, cluster_view, FALSE, FALSE)
    ELSE IF mode = "EXPANDED_WITH_SHARDS"
    THEN _render_expanded_with_shards(maintenance_views, cluster_view)
    ELSE _render_expanded_with_safety_checks(maintenance_views, cluster_view)

(***************************************************************************)
(* _parse_priority: None passes through, the upper-cased string is looked  *)
(* up in MaintenancePriority and anything else raises ValueError.          *)
(***************************************************************************)
Upper ==
    ("imminent" :> "IMMINENT") @@ ("high" :> "HIGH") @@
    ("medium" :> "MEDIUM") @@ ("low" :> "LOW") @@ ("urgent" :> "URGENT")

_parse_priority(priority) ==
    IF priority = <<>> THEN Return(<<>>)
    ELSE IF Upper[priority[1]] \in MaintenancePriority
    THEN Return(<<Upper[priority[1]]>>)
    ELSE Raise("ValueError")

(***************************************************************************)
(* MaintenanceCommand.  What a command prints is a message or the text of  *)
(* a rendering.                                                            *)
(***************************************************************************)
Message(text, color) == [kind |-> "message", text |-> text, color |-> color]

Text(mode, text) == [kind |-> "rendering", mode |-> mode, text |-> text]

NoMatch == Message("No maintenances matching given criteria", "red")

\* The criteria a command hands to _filter_maintenance_views: its own
\* arguments, the parsed priority and include_internal_maintenances.
CriteriaOf(args, priority, include_internal_maintenances) ==
    [k \in CriteriaNames |->
        IF k = "priority" THEN priority
        ELSE IF k = "include_internal_maintenances"
        THEN include_internal_maintenances
        ELSE args[k]]

SelectAndRenderHidingInternal(cluster_view, args, priority, rendering_mode) ==
    LET mvs == _filter_maintenance_views(
                   cluster_view.mvs, cluster_view,
                   CriteriaOf(args, priority, <<FALSE>>))
        text == _render(mvs.val, cluster_view, rendering_mode)
    IN  IF mvs.exc # NoExc THEN Raise(mvs.exc)
        ELSE IF Len(mvs.val) = 0 THEN Return(NoMatch)
        ELSE IF text.exc # NoExc THEN Raise(text.exc)
        ELSE Return(Text(rendering_mode, text.val))

SelectAndRenderAlways(cluster_view, args, priority, rendering_mode) ==
    LET mvs == _filter_maintenance_views(
                   cluster_view.mvs, cluster_view,
                   CriteriaOf(args, priority, <<>>))
        text == _render(mvs.val, cluster_view, rendering_mode)
    IN  IF mvs.exc # NoExc THEN Raise(mvs.exc)
        ELSE IF text.exc # NoExc THEN Raise(text.exc)
        ELSE Return(Text(rendering_mode, text.val))

_select_and_render(cluster_view, args, priority, rendering_mode) ==
    LET mvs == _filter_maintenance_views(
                   cluster_view.mvs, cluster_view,
                   CriteriaOf(args, priority, <<>>))
        text == _render(mvs.val, cluster_view, rendering_mode)
    IN  IF mvs.exc # NoExc THEN Raise(mvs.exc)
        ELSE IF Len(mvs.val) = 0 THEN Return(NoMatch)
        ELSE IF text.exc # NoExc THEN Raise(text.exc)
        ELSE Return(Text(rendering_mode, text.val))

list_maintenances(cluster_view, args) ==
    LET priority == _parse_priority(args.priority)
    IN  IF priority.exc # NoExc THEN Raise(priority.exc)
        ELSE _select_and_render(cluster_view, args, priority.val, "COMPACT")

ShowRenderingMode(expand_shards, show_safety_check_results) ==
    IF show_safety_check_results THEN "EXPANDED_WITH_SAFETY_CHECKS"
    ELSE IF expand_shards THEN "EXPANDED_WITH_SHARDS"
    ELSE "EXPANDED"

show(cluster_view, args) ==
    _select_and_render(
        cluster_view, args, <<>>,
        ShowRenderingMode(args.expand_shards, args.show_safety_check_results))

\* remove, up to its confirmation prompt: the filtered views, what it
\* prints and whether it goes on to prompt.
RemoveNoMatch(include_internal_maintenances) ==
    IF include_internal_maintenances
    THEN Message("No maintenances matching given criteria", "white")
    ELSE Message("No maintenances matching given criteria, did you mean to target internal maintenances?",
                 "white")

RemovePrompt(include_internal_maintenances) ==
    IF ~include_internal_maintenances
    THEN Message("NOTE: Your query might have matched internal maintenances.",
                 "yellow")
    ELSE Message("WARNING: You might be deleting internal maintenances.", "red")

RemovePromptingAlways(cluster_view, args) ==
    LET priority == _parse_priority(args.priority)
        mvs == _filter_maintenance_views(
                   cluster_view.mvs, cluster_view,
                   CriteriaOf(args, priority.val,
                              <<args.include_internal_maintenances>>))
        text == _render_expanded(mvs.val, cluster_view, FALSE, FALSE)
    IN  IF priority.exc # NoExc THEN Raise(priority.exc)
        ELSE IF mvs.exc # NoExc THEN Raise(mvs.exc)
        ELSE IF text.exc # NoExc THEN Raise(text.exc)
        ELSE Return([mvs |-> mvs.val, prompt |-> TRUE,
                     printed |-> <<Message("You are going to remove following maintenances:", None),
                                   Text("EXPANDED", text.val),
                                   RemovePrompt(args.include_internal_maintenances)>>])

remove(cluster_view, args) ==
    LET priority == _parse_priority(args.priority)
        mvs == _filter_maintenance_views(
                   cluster_view.mvs, cluster_view,
                   CriteriaOf(args, priority.val,
                              <<args.include_internal_maintenances>>))
        text == _render_expanded(mvs.val, cluster_view, FALSE, FALSE)
    IN  IF priority.exc # NoExc THEN Raise(priority.exc)
        ELSE IF mvs.exc # NoExc THEN Raise(mvs.exc)
        ELSE IF Len(mvs.val) = 0
        THEN Return([mvs |-> mvs.val, prompt |-> FALSE,
                     printed |-> <<RemoveNoMatch(args.include_internal_maintenances)>>])
        ELSE IF text.exc # NoExc THEN Raise(text.exc)
        ELSE Return([mvs |-> mvs.val, prompt |-> TRUE,
                     printed |-> <<Message("You are going to remove following maintenances:", None),
                                   Text("EXPANDED", text.val),
                                   RemovePrompt(args.include_internal_maintenances)>>])

GroupIdsOf(mvs) == [i \in 1..Len(mvs) |-> mvs[i].group_id]

(***************************************************************************)
(* SpecSatisfy: _satisfy_shard_op_state called on every pair of states.    *)
(***************************************************************************)
InitSatisfy ==
    /\ cv = EmptyClusterView
    /\ \E cur \in ShardOperationalState, tgt \in ShardOperationalState :
          call = [op |-> "_satisfy_shard_op_state", cur |-> cur, tgt |-> tgt]
    /\ pc = "called"
    /\ ret = None
    /\ exc = NoExc
    /\ stdout = <<>>
    /\ removed = <<>>
    /\ now = 0

CallSatisfy ==
    /\ call.op = "_satisfy_shard_op_state"
    /\ pc = "called"
    /\ ret' = _satisfy_shard_op_state(call.cur, call.tgt)
    /\ pc' = "returned"
    /\ UNCHANGED <<cv, now, call, exc, stdout, removed>>

NextSatisfy == CallSatisfy

SpecSatisfy == InitSatisfy /\ [][NextSatisfy]_vars

\* C1: a returned call of _satisfy_shard_op_state(cur, tgt) gave TRUE exactly
\* when tgt is MAY_DISAPPEAR and cur is one of MAY_DISAPPEAR, DRAINED,
\* PROVISIONING, MIGRATING_DATA, or tgt is DRAINED and cur is DRAINED; every
\* other pair, and every other target, gave FALSE.
C1_SatisfyTable ==
    (call.op = "_satisfy_shard_op_state" /\ pc = "returned") =>
        /\ ret \in BOOLEAN
        /\ ret = TRUE <=>
              \/ /\ call.tgt = "MAY_DISAPPEAR"
                 /\ call.cur \in {"MAY_DISAPPEAR", "DRAINED", "PROVISIONING",
                                  "MIGRATING_DATA"}
              \/ /\ call.tgt = "DRAINED"
                 /\ call.cur = "DRAINED"

C1_Witness ==
    /\ call.op = "_satisfy_shard_op_state"
    /\ pc = "returned"
    /\ call.tgt = "DRAINED"
    /\ call.cur = "MIGRATING_DATA"
    /\ ret = FALSE

(***************************************************************************)
(* SpecFilter: _filter_maintenance_views called on a snapshot and the      *)
(* result consumed with list().                                            *)
(***************************************************************************)
InitFilter ==
    /\ cv \in ClusterViews
    /\ call = [op |-> "idle"]
    /\ pc = "idle"
    /\ ret = None
    /\ exc = NoExc
    /\ stdout = <<>>
    /\ removed = <<>>
    /\ now = 0

CallFilter ==
    /\ pc = "idle"
    /\ \E c \in Criteria :
          LET r == _filter_maintenance_views(cv.mvs, cv, c)
          IN  /\ call' = [op |-> "_filter_maintenance_views", criteria |-> c]
              /\ ret' = r.val
              /\ exc' = r.exc
    /\ pc' = "returned"
    /\ UNCHANGED <<cv, now, stdout, removed>>

NextFilter == CallFilter

SpecFilter == InitFilter /\ [][NextFilter]_vars

\* What the criteria ask of one maintenance view: every criterion that is
\* not None holds of it.
Satisfies(mv, c) ==
    /\ c.ids # <<>> => mv.group_id \in c.ids[1]
    /\ c.users # <<>> => mv.user \in c.users[1]
    /\ c.node_indexes # <<>> =>
          Range(mv.affected_node_indexes) \cap c.node_indexes[1] # {}
    /\ c.node_names # <<>> =>
          Range(mv.affected_node_indexes)
              \cap {cv.names[n] : n \in c.node_names[1]} # {}
    /\ c.priority # <<>> => mv.priority = c.priority[1]
    /\ c.blocked # <<>> => mv.is_blocked = c.blocked[1]
    /\ c.completed # <<>> => mv.is_completed = c.completed[1]
    /\ c.in_progress # <<>> => mv.is_in_progress = c.in_progress[1]
    /\ c.include_internal_maintenances = <<FALSE>> => ~mv.is_internal

FilterReturned ==
    /\ call.op = "_filter_maintenance_views"
    /\ pc = "returned"
    /\ exc = NoExc

\* C2: the consumed result of _filter_maintenance_views is the subsequence of
\* the input, in input order, of the views that satisfy every criterion that
\* is not None; with no criteria it is the input.
C2_FilterIsConjunction ==
    FilterReturned =>
        LET Wanted(mv) == Satisfies(mv, call.criteria)
        IN  ret = SelectSeq(cv.mvs, Wanted)

\* Only criterion k of c, the others None.
Only(c, k) == [x \in CriteriaNames |-> IF x = k THEN c[x] ELSE <<>>]

\* C3: for two distinct criteria, filtering by one alone and then filtering
\* that result by the other alone yields, in either order, the result of
\* the one call with both.
C3_CriteriaCompose ==
    (FilterReturned /\ Cardinality(Present(call.criteria)) = 2) =>
        \A k1, k2 \in Present(call.criteria) :
            k1 # k2 =>
                _filter_maintenance_views(
                    _filter_maintenance_views(
                        cv.mvs, cv, Only(call.criteria, k1)).val,
                    cv, Only(call.criteria, k2)).val = ret

(***************************************************************************)
(* The arguments of the commands.  A command takes the criteria as its     *)
(* arguments; list and remove take the priority as one of the strings      *)
(* nubia offers, show takes none.                                          *)
(***************************************************************************)
PriorityArg == ("MEDIUM" :> "medium") @@ ("HIGH" :> "high")

SharedArgs ==
    {"ids", "users", "node_indexes", "node_names", "blocked", "completed",
     "in_progress"}

PriorityArgOf(c) ==
    IF c.priority = <<>> THEN <<>> ELSE <<PriorityArg[c.priority[1]]>>

ListArgs(c) ==
    [k \in SharedArgs |-> c[k]] @@ [priority |-> PriorityArgOf(c)]

ShowArgs(c, expand_shards, show_safety_check_results) ==
    [k \in SharedArgs |-> c[k]] @@
    [expand_shards |-> expand_shards,
     show_safety_check_results |-> show_safety_check_results]

\* include_internal_maintenances defaults to False.
RemoveArgs(c) ==
    [k \in SharedArgs |-> c[k]] @@
    [priority |-> PriorityArgOf(c),
     include_internal_maintenances |->
         IF c.include_internal_maintenances = <<>> THEN FALSE
         ELSE c.include_internal_maintenances[1]]

ListCriteria == {c \in Criteria : c.include_internal_maintenances = <<>>}

ShowCriteria == {c \in ListCriteria : c.priority = <<>>}

(***************************************************************************)
(* SpecListShow: one list or show command run against a snapshot.          *)
(***************************************************************************)
InitCommand ==
    /\ cv \in ClusterViews
    /\ call = [op |-> "idle"]
    /\ pc = "idle"
    /\ ret = None
    /\ exc = NoExc
    /\ stdout = <<>>
    /\ removed = <<>>
    /\ now = 0

\* The command prints what r returned, or leaves with r's exception.
Printed(r) ==
    /\ exc' = r.exc
    /\ stdout' = IF r.exc = NoExc THEN Append(stdout, r.val) ELSE stdout
    /\ pc' = "done"

List ==
    /\ call.op = "idle"
    /\ pc = "idle"
    /\ \E c \in ListCriteria :
          \E r \in {list_maintenances(cv, ListArgs(c))} :
              /\ call' = [op |-> "list", args |-> ListArgs(c)]
              /\ Printed(r)
    /\ UNCHANGED <<cv, now, ret, removed>>

Show ==
    /\ call.op = "idle"
    /\ pc = "idle"
    /\ \E c \in ShowCriteria, expand_shards \in BOOLEAN,
          show_safety_check_results \in BOOLEAN :
          \E r \in {show(cv, ShowArgs(c, expand_shards,
                                       show_safety_check_results))} :
              /\ call' = [op |-> "show",
                          args |-> ShowArgs(c, expand_shards,
                                            show_safety_check_results)]
              /\ Printed(r)
    /\ UNCHANGED <<cv, now, ret, removed>>

NextListShow == List \/ Show

SpecListShow == InitCommand /\ [][NextListShow]_vars

(***************************************************************************)
(* SpecRemove: one remove command run against a snapshot, with the answer  *)
(* to its confirmation prompt.                                             *)
(***************************************************************************)
RemoveStart ==
    /\ pc = "idle"
    /\ \E c \in Criteria :
          \E r \in {remove(cv, RemoveArgs(c))} :
              /\ exc' = r.exc
              /\ IF r.exc # NoExc
                 THEN /\ call' = [op |-> "remove", args |-> RemoveArgs(c),
                                  mvs |-> <<>>]
                      /\ stdout' = stdout
                      /\ pc' = "done"
                 ELSE /\ call' = [op |-> "remove", args |-> RemoveArgs(c),
                                  mvs |-> r.val.mvs]
                      /\ stdout' = stdout \o r.val.printed
                      /\ pc' = IF r.val.prompt THEN "confirm_prompt" ELSE "done"
    /\ UNCHANGED <<cv, now, ret, removed>>

RemoveConfirmed ==
    /\ pc = "confirm_prompt"
    /\ LET group_ids == GroupIdsOf(call.mvs)
       IN  /\ removed' = Append(removed, group_ids)
           /\ stdout' = stdout \o
                  <<Message(<<"Removing maintenances", group_ids>>, None),
                    Message(<<"Removed maintenances", group_ids>>, None)>>
    /\ call' = call @@ [confirm_prompt |-> TRUE]
    /\ pc' = "done"
    /\ UNCHANGED <<cv, now, ret, exc>>

RemoveDeclined ==
    /\ pc = "confirm_prompt"
    /\ call' = call @@ [confirm_prompt |-> FALSE]
    /\ pc' = "done"
    /\ UNCHANGED <<cv, now, ret, exc, stdout, removed>>

NextRemove == RemoveStart \/ RemoveConfirmed \/ RemoveDeclined

SpecRemove == InitCommand /\ [][NextRemove]_vars

\* The group ids of the maintenances a printed rendering shows, in order.
PrintedIds(printed) ==
    IF printed.mode = "COMPACT"
    THEN [i \in 1..Len(printed.text.rows) |-> printed.text.rows[i].id]
    ELSE [i \in 1..Len(printed.text) |-> printed.text[i][1].body.id]

\* The view of the snapshot with this group id.
ViewOf(id) == cv.mvs[CHOOSE i \in 1..Len(cv.mvs) : cv.mvs[i].group_id = id]

ListOrShowDone == call.op \in {"list", "show"} /\ pc = "done"

NoCriteriaGiven ==
    /\ \A k \in SharedArgs : call.args[k] = <<>>
    /\ call.op = "list" => call.args.priority = <<>>

\* C4: a remove command run with include_internal_maintenances false gets no
\* internal maintenance from the filter, whatever its other criteria, and
\* no group id of an internal maintenance is in its removal request.
C4_RemoveSparesInternal ==
    (call.op = "remove" /\ ~call.args.include_internal_maintenances) =>
        /\ \A i \in 1..Len(call.mvs) : ~call.mvs[i].is_internal
        /\ \A r \in 1..Len(removed) :
               \A i \in 1..Len(removed[r]) : ~ViewOf(removed[r][i]).is_internal

C4_Witness ==
    /\ call.op = "remove"
    /\ ~call.args.include_internal_maintenances
    /\ call.args.users = <<{"alice"}>>
    /\ \E i \in 1..Len(cv.mvs) :
          cv.mvs[i].is_internal /\ cv.mvs[i].user = "alice"
    /\ Len(removed) = 1
    /\ Len(removed[1]) = 1

C6_UnknownNodeNamePropagates ==
    (/\ ListOrShowDone
     /\ call.args.node_names # <<>>
     /\ \E n \in call.args.node_names[1] : n \notin DOMAIN cv.names) =>
        /\ exc = "NodeNotFoundError"
        /\ stdout = <<>>

C6_Witness ==
    /\ ListOrShowDone
    /\ call.op = "show"
    /\ call.args.node_names = <<{"n0", UnknownNodeName}>>
    /\ call.args.users = <<{"alice"}>>
    /\ \E i \in 1..Len(cv.mvs) :
          /\ cv.mvs[i].user = "alice"
          /\ 0 \in Range(cv.mvs[i].affected_node_indexes)
    /\ exc = "NodeNotFoundError"
    /\ stdout = <<>>

(***************************************************************************)
(* The renderer specifications: _render called in several modes on one     *)
(* cluster view; ret keeps what each mode gave.                            *)
(***************************************************************************)
NotRendered == [mode \in RenderingMode |-> <<>>]

InitRender(cluster_views) ==
    /\ cv \in cluster_views
    /\ call = [op |-> "_render"]
    /\ pc = "idle"
    /\ ret = NotRendered
    /\ exc = NoExc
    /\ stdout = <<>>
    /\ removed = <<>>
    /\ now = 0

Render(modes) ==
    /\ call.op = "_render"
    /\ \E mode \in modes :
          /\ ret[mode] = <<>>
          /\ ret' = [ret EXCEPT ![mode] = <<_render(cv.mvs, cv, mode)>>]
    /\ pc' = "returned"
    /\ UNCHANGED <<cv, now, call, exc, stdout, removed>>

Rendered(mode) == ret[mode] # <<>> /\ ret[mode][1].exc = NoExc

MaxShards == 3

\* A maintenance of up to MaxShards shards on nodes 0 and 1, each in one of
\* three states or without state detail; shard i of the list has shard
\* index i - 1.
ShardStates == Opt({"DRAINED", "MIGRATING_DATA", "ENABLED"})

ShardLists ==
    UNION { { [i \in 1..n |->
                 Shard(f[i][1], i - 1, f[i][2],
                       IF f[i][2] = <<"DRAINED">> THEN "COMPLETED" ELSE "STARTED",
                       <<i>>)] :
              f \in [1..n -> {0, 1} \X ShardStates] } : n \in 1..MaxShards }

ShardViews ==
    { View("alice", FALSE, "IN_PROGRESS", FALSE, FALSE, TRUE, None,
           target, shard_list, seq_nodes, <<>>) :
        target \in {"MAY_DISAPPEAR", "DRAINED"}, shard_list \in ShardLists,
        seq_nodes \in {<<>>, <<1>>} }

(***************************************************************************)
(* SpecShards: the shard block of one maintenance, aggregated and per      *)
(* shard.                                                                  *)
(***************************************************************************)
InitShards ==
    InitRender({ClusterView(WithIds(<<v>>), SampleNodes) : v \in ShardViews})

RenderShardBlock == Render({"EXPANDED", "EXPANDED_WITH_SHARDS"})

NextShards == RenderShardBlock

SpecShards == InitShards /\ [][NextShards]_vars

\* The table of the "Shard Maintenances" section that `mode` rendered for
\* the first maintenance.
ShardTable(mode) ==
    LET secs == ret[mode][1].val[1]
    IN  secs[CHOOSE i \in 1..Len(secs) :
                secs[i].title = "Shard Maintenances"].body.table

StateOrUnknown(shard) == IF shard.state = <<>> THEN "UNKNOWN" ELSE shard.state[1]

ShardsOn(mv, ni) == {i \in 1..Len(mv.shards) : mv.shards[i].node_index = ni}

RECURSIVE SumCounts(_)
SumCounts(chips) ==
    IF chips = <<>> THEN 0 ELSE Head(chips).text[2] + SumCounts(Tail(chips))

NameBefore(a, b) ==
    RankIn(OperationalStateNames, a) < RankIn(OperationalStateNames, b)

\* C7: in the aggregated view of a maintenance there is one row per affected
\* storage node, and the CURRENT STATE chips of a node name exactly the
\* distinct current states of the node's shards under the maintenance
\* (UNKNOWN for a shard without state), each once and in ascending order of
\* the state name, each with the number of those shards in that state; the
\* counts add up to the number of the node's shards under the maintenance.
C7_AggregatedChips ==
    Rendered("EXPANDED") =>
        LET mv == cv.mvs[1]
            table == ShardTable("EXPANDED")
        IN  /\ Len(table) = Len(mv.affected_storage_node_indexes)
            /\ \A r \in 1..Len(table) :
                  LET ni == mv.affected_storage_node_indexes[r]
                      chips == table[r].current_state
                      on == ShardsOn(mv, ni)
                  IN  /\ table[r].node_index = ni
                      /\ {chips[k].text[1] : k \in 1..Len(chips)}
                            = {StateOrUnknown(mv.shards[i]) : i \in on}
                      /\ \A k, l \in 1..Len(chips) :
                            k < l => NameBefore(chips[k].text[1], chips[l].text[1])
                      /\ \A k \in 1..Len(chips) :
                            chips[k].text[2] =
                                Cardinality({i \in on :
                                    StateOrUnknown(mv.shards[i]) = chips[k].text[1]})
                      /\ SumCounts(chips) = Cardinality(on)

\* A node whose first shard has no state and whose other two are DRAINED:
\* the chips are DRAINED(2),UNKNOWN(1), not in the order the states were seen.
C7_Witness ==
    /\ Rendered("EXPANDED")
    /\ \E r \in 1..Len(ShardTable("EXPANDED")) :
          LET chips == ShardTable("EXPANDED")[r].current_state
          IN  /\ Len(chips) = 2
              /\ chips[1].text = <<"DRAINED", 2>>
              /\ chips[2].text = <<"UNKNOWN", 1>>
              /\ cv.mvs[1].shards[1].state = <<>>

\* satisfies(current, target) as the specification tabulates it.
Satisfied(cur, tgt) ==
    \/ tgt = "MAY_DISAPPEAR" /\
       cur \in {"MAY_DISAPPEAR", "DRAINED", "PROVISIONING", "MIGRATING_DATA"}
    \/ tgt = "DRAINED" /\ cur = "DRAINED"

\* The colours the per-shard view gave the row of `shard`.
RowColours(shard) ==
    LET blocks == ShardTable("EXPANDED_WITH_SHARDS")
    IN  {blocks[b[1]].shards_table[b[2]].current_state.color :
            b \in {c \in (1..Len(blocks)) \X (1..MaxShards + 1) :
                      /\ blocks[c[1]].node_index = shard.node_index
                      /\ c[2] <= Len(blocks[c[1]].shards_table)
                      /\ blocks[c[1]].shards_table[c[2]].shard_index
                            = shard.shard_index}}

\* The colours the aggregated view gave the chip that counts `shard`.
ChipColours(shard) ==
    LET table == ShardTable("EXPANDED")
    IN  {table[b[1]].current_state[b[2]].color :
            b \in {c \in (1..Len(table)) \X (1..MaxShards + 1) :
                      /\ table[c[1]].node_index = shard.node_index
                      /\ c[2] <= Len(table[c[1]].current_state)
                      /\ table[c[1]].current_state[c[2]].text[1]
                            = StateOrUnknown(shard)}}

\* C8: once a maintenance is rendered both aggregated and per shard, every
\* shard of it has one row in the per-shard view and one chip counting it in
\* the aggregated view, both of the same colour: green (ok) when its current
\* state satisfies the maintenance's shard target state, yellow (warn)
\* otherwise, never red (danger).
C8_SameSeverityInBothViews ==
    (Rendered("EXPANDED") /\ Rendered("EXPANDED_WITH_SHARDS")) =>
        \A i \in 1..Len(cv.mvs[1].shards) :
            LET shard == cv.mvs[1].shards[i]
                severity ==
                    IF Satisfied(StateOrUnknown(shard), cv.mvs[1].shard_target_state)
                    THEN "green" ELSE "yellow"
            IN  /\ RowColours(shard) = {severity}
                /\ ChipColours(shard) = {severity}

C8_Witness ==
    /\ Rendered("EXPANDED")
    /\ Rendered("EXPANDED_WITH_SHARDS")
    /\ cv.mvs[1].shard_target_state = "MAY_DISAPPEAR"
    /\ \E i, j \in 1..Len(cv.mvs[1].shards) :
          /\ cv.mvs[1].shards[i].node_index = cv.mvs[1].shards[j].node_index
          /\ cv.mvs[1].shards[i].state = <<"DRAINED">>
          /\ RowColours(cv.mvs[1].shards[i]) = {"green"}
          /\ cv.mvs[1].shards[j].state = <<"ENABLED">>
          /\ ChipColours(cv.mvs[1].shards[j]) = {"yellow"}

(***************************************************************************)
(* SpecLastUpdated: the shard block of a maintenance of node 0, whose node *)
(* view has up to MaxShards shard states, each with or without a           *)
(* maintenance progress.                                                   *)
(***************************************************************************)
Timestamps == {1, 2, 3}

ShardStateLists ==
    {<<>>} \cup UNION { [1..n -> Opt(Timestamps)] : n \in 1..MaxShards }

InitLastUpdated ==
    InitRender(
        { ClusterView(
              WithIds(<<InProgress("alice", FALSE, None, <<Draining(0, 0)>>, <<>>)>>),
              (0 :> NodeView(0, "n0", shard_states)) @@
              (1 :> NodeView(1, "n1", <<<<2>>>>))) :
          shard_states \in ShardStateLists })

SpecLastUpdated == InitLastUpdated /\ [][NextShards]_vars

TimesOf(shard_states) ==
    {shard_states[i][1] :
        i \in {j \in 1..Len(shard_states) : shard_states[j] # <<>>}}

\* C9: rendering the aggregated view never fails, and the LAST UPDATED cell
\* of a node is the earliest timestamp among the node's shard states that
\* carry a maintenance progress, NEVER when none of them does.
C9_LastUpdatedIsEarliest ==
    ret["EXPANDED"] # <<>> =>
        /\ ret["EXPANDED"][1].exc = NoExc
        /\ LET times == TimesOf(get_node_view(cv, 0).shard_states)
           IN  ShardTable("EXPANDED")[1].last_updated_at =
                   IF times = {} THEN Never
                   ELSE At(CHOOSE t \in times : \A u \in times : t <= u)

(***************************************************************************)
(* SpecCompact: the compact table of one maintenance.                      *)
(***************************************************************************)
Lifecycles ==
    { [status |-> "BLOCKED_UNTIL_SAFE", blocked |-> TRUE, completed |-> FALSE,
       in_progress |-> TRUE],
      [status |-> "IN_PROGRESS", blocked |-> FALSE, completed |-> FALSE,
       in_progress |-> TRUE],
      [status |-> "COMPLETED", blocked |-> FALSE, completed |-> TRUE,
       in_progress |-> FALSE] }

\* Shards of node 0, each still draining or drained.
ProgressLists ==
    {<<>>} \cup
    UNION { { [i \in 1..n |-> IF done[i] THEN DrainedShard(0, i - 1)
                              ELSE Draining(0, i - 1)] :
              done \in [1..n -> BOOLEAN] } : n \in 1..MaxShards }

\* A maintenance is completed exactly when nothing of it is outstanding, and
\* it affects shards or sequencers.
CompactViews ==
    { v \in { View("alice", FALSE, l.status, l.blocked, l.completed,
                   l.in_progress, priority, "DRAINED", shard_list, seq_nodes,
                   <<>>) :
                l \in Lifecycles, priority \in {None, "HIGH"},
                shard_list \in ProgressLists,
                seq_nodes \in {<<>>, <<0>>, <<0, 1>>} } :
        /\ v.affects_shards \/ v.affects_sequencers
        /\ v.is_completed <=>
              (v.are_all_shards_done /\ v.are_all_sequencers_done) }

InitCompact ==
    InitRender({ClusterView(WithIds(<<v>>), SampleNodes) : v \in CompactViews})

RenderCompact == Render({"COMPACT"})

NextCompact == RenderCompact

SpecCompact == InitCompact /\ [][NextCompact]_vars

\* C10: the compact table has one row per maintenance; its shard cell is the
\* dash when the maintenance affects no shards and else TARGET(done/total),
\* red when the maintenance is blocked, else yellow when not all shards are
\* done, else green; its sequencer cell is the dash when the maintenance
\* affects no sequencers and else a chip that is green when all sequencers
\* are done and yellow otherwise, blocked or not.
C10_CompactProgressCells ==
    Rendered("COMPACT") =>
        LET mv == cv.mvs[1]
            rows == ret["COMPACT"][1].val.rows
        IN  /\ Len(rows) = Len(cv.mvs)
            /\ IF ~mv.affects_shards
               THEN rows[1].shard_progress = Dash
               ELSE /\ rows[1].shard_progress.text =
                          <<mv.shard_target_state, mv.num_shards_done,
                            mv.num_shards_total>>
                    /\ rows[1].shard_progress.color =
                          IF mv.is_blocked THEN "red"
                          ELSE IF mv.num_shards_done # mv.num_shards_total
                               THEN "yellow" ELSE "green"
            /\ IF ~mv.affects_sequencers
               THEN rows[1].sequencer_progress = Dash
               ELSE /\ rows[1].sequencer_progress.text =
                          <<mv.sequencer_target_state, mv.num_sequencers_done,
                            mv.num_sequencers_total>>
                    /\ rows[1].sequencer_progress.color =
                          IF mv.num_sequencers_done = mv.num_sequencers_total
                          THEN "green" ELSE "yellow"

C10_Witness ==
    /\ Rendered("COMPACT")
    /\ cv.mvs[1].is_blocked
    /\ cv.mvs[1].affects_shards
    /\ cv.mvs[1].affects_sequencers
    /\ ret["COMPACT"][1].val.rows[1].shard_progress.color = "red"
    /\ ret["COMPACT"][1].val.rows[1].sequencer_progress.color = "yellow"

(***************************************************************************)
(* SpecImpact: one maintenance, of any progress, with or without the       *)
(* result of a safety check, rendered in the three expanded modes.         *)
(***************************************************************************)
ImpactLifecycles ==
    Lifecycles \cup
    { [status |-> "UNKNOWN", blocked |-> FALSE, completed |-> FALSE,
       in_progress |-> FALSE] }

ImpactShardLists(l) ==
    IF l.completed THEN {<<>>, <<DrainedShard(0, 0)>>}
    ELSE {<<>>, <<Draining(0, 0)>>, <<Draining(0, 0), DrainedShard(1, 0)>>}

ImpactViews ==
    UNION { { View("alice", FALSE, l.status, l.blocked, l.completed,
                   l.in_progress, None, "DRAINED", shard_list, seq_nodes,
                   impact_result) :
                shard_list \in ImpactShardLists(l),
                seq_nodes \in {<<>>, <<1>>},
                impact_result \in Opt({"impact"}) } : l \in ImpactLifecycles }

InitImpact ==
    InitRender({ClusterView(WithIds(<<v>>), SampleNodes) : v \in ImpactViews})

ExpandedModes == RenderingMode \ {"COMPACT"}

RenderExpanded == Render(ExpandedModes)

NextImpact == RenderExpanded

SpecImpact == InitImpact /\ [][NextImpact]_vars

\* The output of `mode` for the first maintenance has a section `title`.
HasSection(mode, title) ==
    \E i \in 1..Len(ret[mode][1].val[1]) : ret[mode][1].val[1][i].title = title

BlockedWithImpact ==
    /\ cv.mvs[1].overall_status = "BLOCKED_UNTIL_SAFE"
    /\ cv.mvs[1].last_check_impact_result # <<>>

\* C11: the rendering of a maintenance that is BLOCKED_UNTIL_SAFE and has
\* an impact result contains the "Safety Check Impact" section in mode
\* EXPANDED_WITH_SAFETY_CHECKS, and does not contain it in modes EXPANDED
\* and EXPANDED_WITH_SHARDS.
C11_ImpactBlockBySafetyMode ==
    BlockedWithImpact =>
        /\ Rendered("EXPANDED_WITH_SAFETY_CHECKS") =>
              HasSection("EXPANDED_WITH_SAFETY_CHECKS", "Safety Check Impact")
        /\ \A mode \in {"EXPANDED", "EXPANDED_WITH_SHARDS"} :
              Rendered(mode) => ~HasSection(mode, "Safety Check Impact")

C11_Witness ==
    /\ BlockedWithImpact
    /\ \A mode \in ExpandedModes : Rendered(mode)
    /\ HasSection("EXPANDED_WITH_SAFETY_CHECKS", "Safety Check Impact")
    /\ ~HasSection("EXPANDED", "Safety Check Impact")

\* C12: in mode EXPANDED_WITH_SAFETY_CHECKS the "Safety Check Impact"
\* section (the call of safety.check_impact_string) is there exactly when
\* the maintenance has an impact result and is blocked.
C12_ImpactOnlyWithResult ==
    Rendered("EXPANDED_WITH_SAFETY_CHECKS") =>
        (HasSection("EXPANDED_WITH_SAFETY_CHECKS", "Safety Check Impact") <=>
            /\ cv.mvs[1].last_check_impact_result # <<>>
            /\ cv.mvs[1].is_blocked)

(***************************************************************************)
(* SpecEmpty: a snapshot of at most one maintenance, either given to a     *)
(* list or show command or handed to _render directly.                     *)
(***************************************************************************)
SmallClusterViews == {c \in ClusterViews : Len(c.mvs) <= 1}

InitEmpty ==
    \/ InitCommand /\ cv \in SmallClusterViews
    \/ InitRender(SmallClusterViews)

RenderAny == Render(RenderingMode)

NextEmpty == List \/ Show \/ RenderAny

SpecEmpty == InitEmpty /\ [][NextEmpty]_vars

\* What the filter gave the list or show command that ran.
SelectedByCommand ==
    _filter_maintenance_views(
        cv.mvs, cv,
        CriteriaOf(call.args,
                   IF call.op = "list"
                   THEN _parse_priority(call.args.priority).val ELSE <<>>,
                   <<>>)).val

\* A table without rows, or a text without maintenances.
EmptyRendering(mode, text) ==
    IF mode = "COMPACT" THEN text.rows = <<>> ELSE text = <<>>

\* A list or show command that returned printed one thing; it is the
\* "No maintenances matching given criteria" message when the filter
\* selected nothing, and a rendering of at least one maintenance otherwise.
CommandPrintsNoMatch ==
    (ListOrShowDone /\ exc = NoExc) =>
        /\ Len(stdout) = 1
        /\ IF SelectedByCommand = <<>>
           THEN stdout[1].kind = "message" /\ stdout[1] = NoMatch
           ELSE /\ stdout[1].kind = "rendering"
                /\ ~EmptyRendering(stdout[1].mode, stdout[1].text)

\* C13 as stated: besides the commands, _render itself never returns an
\* empty table or an empty text, in whichever mode it is given an empty
\* collection.
C13_EmptyNeverRendered ==
    /\ CommandPrintsNoMatch
    /\ call.op = "_render" =>
          \A mode \in RenderingMode :
              Rendered(mode) => ~EmptyRendering(mode, ret[mode][1].val)

\* C13 amended: the message comes from the commands, which never call
\* _render on an empty selection; _render given an empty collection returns
\* the header row without rows in mode COMPACT and the empty text in the
\* expanded modes.
C13_NoMatchFromCommands ==
    /\ CommandPrintsNoMatch
    /\ (call.op = "_render" /\ cv.mvs = <<>>) =>
          \A mode \in RenderingMode :
              ret[mode] # <<>> =>
                  /\ ret[mode][1].exc = NoExc
                  /\ EmptyRendering(mode, ret[mode][1].val)
                  /\ mode = "COMPACT" =>
                        ret[mode][1].val.headers = CompactHeaders

C13_Witness ==
    /\ ListOrShowDone
    /\ exc = NoExc
    /\ cv.mvs # <<>>
    /\ SelectedByCommand = <<>>
    /\ Len(stdout) = 1
    /\ stdout[1].kind = "message"
    /\ stdout[1] = NoMatch

(***************************************************************************)
(* SpecZero: a maintenance without shards and without sequencer nodes, so  *)
(* with no affected node, rendered in the three expanded modes.  The       *)
(* record's affects_shards and affects_sequencers are fields of their own  *)
(* and take both values.                                                   *)
(***************************************************************************)
ZeroNodeViews ==
    { [View("alice", FALSE, l.status, l.blocked, l.completed, l.in_progress,
            None, "DRAINED", <<>>, <<>>, impact_result)
         EXCEPT !.affects_shards = affects_shards,
                !.shard_target_state = IF affects_shards THEN "DRAINED" ELSE None,
                !.affects_sequencers = affects_sequencers,
                !.sequencer_target_state =
                    IF affects_sequencers THEN "DISABLED" ELSE None] :
        l \in ImpactLifecycles, impact_result \in Opt({"impact"}),
        affects_shards \in BOOLEAN, affects_sequencers \in BOOLEAN }

InitZero ==
    InitRender({ClusterView(WithIds(<<v>>), SampleNodes) : v \in ZeroNodeViews})

SpecZero == InitZero /\ [][NextImpact]_vars

\* C14: a maintenance with no affected node renders in each expanded mode
\* without raising, and the rendering has neither a "Shard Maintenances" nor
\* a "Sequencer Maintenances" section, whatever affects_shards and
\* affects_sequencers are.
C14_ZeroNodesOmitBlocks ==
    cv.mvs[1].affected_node_indexes = <<>> =>
        \A mode \in ExpandedModes :
            ret[mode] # <<>> =>
                /\ ret[mode][1].exc = NoExc
                /\ ~HasSection(mode, "Shard Maintenances")
                /\ ~HasSection(mode, "Sequencer Maintenances")

(***************************************************************************)
(* SpecColor: up to MaxCalls calls of the classifiers, _color on a value   *)
(* of any of the three enumerations and _color_priority on a priority; ret *)
(* is the log of the calls and of what they gave.                          *)
(***************************************************************************)
MaxCalls == 2

ColorArgs ==
    {Progress(n) : n \in MaintenanceProgress} \cup
    {Status(n) : n \in MaintenanceStatus} \cup
    {Priority(n) : n \in MaintenancePriority}

InitColor ==
    /\ cv = EmptyClusterView
    /\ call = [op |-> "classify"]
    /\ pc = "idle"
    /\ ret = <<>>
    /\ exc = NoExc
    /\ stdout = <<>>
    /\ removed = <<>>
    /\ now = 0

Classified(fn, arg, r) ==
    /\ ret' = Append(ret, [fn |-> fn, arg |-> arg, exc |-> r.exc, val |-> r.val])
    /\ pc' = "returned"
    /\ UNCHANGED <<cv, now, call, exc, stdout, removed>>

CallColor ==
    /\ call.op = "classify"
    /\ Len(ret) < MaxCalls
    /\ \E arg \in ColorArgs : Classified("_color", arg, _color(arg))

CallColorPriority ==
    /\ call.op = "classify"
    /\ Len(ret) < MaxCalls
    /\ \E n \in MaintenancePriority :
          Classified("_color_priority", Priority(n), Return(_color_priority(n)))

NextColor == CallColor \/ CallColorPriority

SpecColor == InitColor /\ [][NextColor]_vars

\* C15: _color called on a maintenance status gave red for
\* BLOCKED_UNTIL_SAFE and REBUILDING_IS_BLOCKED, green for COMPLETED and
\* yellow for every other status; called on an overall progress it gave
\* green for COMPLETED, red for BLOCKED_UNTIL_SAFE and UNKNOWN, yellow for
\* IN_PROGRESS and white for anything else.
C15_ColorTable ==
    \A i \in 1..Len(ret) :
        (ret[i].fn = "_color" /\ ret[i].arg.type # "MaintenancePriority") =>
            /\ ret[i].exc = NoExc
            /\ ret[i].val =
                  IF ret[i].arg.type = "MaintenanceStatus"
                  THEN CASE ret[i].arg.name \in {"BLOCKED_UNTIL_SAFE",
                                                 "REBUILDING_IS_BLOCKED"} -> "red"
                         [] ret[i].arg.name = "COMPLETED" -> "green"
                         [] OTHER -> "yellow"
                  ELSE CASE ret[i].arg.name = "COMPLETED" -> "green"
                         [] ret[i].arg.name \in {"BLOCKED_UNTIL_SAFE", "UNKNOWN"}
                               -> "red"
                         [] ret[i].arg.name = "IN_PROGRESS" -> "yellow"
                         [] OTHER -> "white"

\* One name, two enumerations: BLOCKED_UNTIL_SAFE and COMPLETED are
\* classified as a status and as a progress, REBUILDING_IS_BLOCKED as a
\* status.
C15_Witness ==
    /\ Len(ret) = 2
    /\ ret[1] = [fn |-> "_color", arg |-> Status("REBUILDING_IS_BLOCKED"),
                 exc |-> NoExc, val |-> "red"]
    /\ ret[2] = [fn |-> "_color", arg |-> Progress("UNKNOWN"),
                 exc |-> NoExc, val |-> "red"]

Severities == {"red", "green", "yellow", "white", "magenta", "blue"}

IdsShown ==
    IF stdout[1].kind = "rendering" THEN Range(PrintedIds(stdout[1])) ELSE {}

\* The priority cell a command printed for the maintenance `id`.
PriorityShown(id) ==
    IF stdout[1].mode = "COMPACT"
    THEN LET rows == stdout[1].text.rows
         IN  rows[CHOOSE i \in 1..Len(rows) : rows[i].id = id].priority_str
    ELSE LET text == stdout[1].text
         IN  text[CHOOSE i \in 1..Len(text) : text[i][1].body.id = id][1]
                 .body.priority

OnlyPriorityGiven(priority) ==
    /\ call.op = "list"
    /\ \A k \in SharedArgs : call.args[k] = <<>>
    /\ call.args.priority = <<priority>>

\* C17: a maintenance without priority is shown as MEDIUM, in white, by list
\* and by show; list with priority MEDIUM as its only criterion prints it,
\* and list with priority HIGH as its only criterion does not.
C17_UnsetPriorityIsMedium ==
    (ListOrShowDone /\ exc = NoExc) =>
        \A i \in 1..Len(cv.mvs) :
            cv.mvs[i].priority = None =>
                /\ cv.mvs[i].group_id \in IdsShown =>
                      PriorityShown(cv.mvs[i].group_id)
                          = Colored(<<"MEDIUM">>, "white")
                /\ OnlyPriorityGiven("medium") => cv.mvs[i].group_id \in IdsShown
                /\ OnlyPriorityGiven("high") => cv.mvs[i].group_id \notin IdsShown

(***************************************************************************)
(* SpecTwice: _render called up to MaxRenders times on one cluster view,   *)
(* while the wall clock advances; stdout is the log of the calls.          *)
(***************************************************************************)
MaxRenders == 2

MaxNow == 1

TimedViews ==
    { [v EXCEPT !.expires_on = expires_on] :
        v \in SampleViews, expires_on \in Opt({2}) }

InitTwice ==
    /\ cv \in {ClusterView(WithIds(<<v>>), SampleNodes) : v \in TimedViews}
    /\ now = 0
    /\ call = [op |-> "_render"]
    /\ pc = "idle"
    /\ ret = None
    /\ exc = NoExc
    /\ stdout = <<>>
    /\ removed = <<>>

RenderLogged ==
    /\ Len(stdout) < MaxRenders
    /\ \E mode \in RenderingMode :
          stdout' = Append(stdout, [mode |-> mode,
                                    result |-> _render(cv.mvs, cv, mode)])
    /\ pc' = "returned"
    /\ UNCHANGED <<cv, now, call, ret, exc, removed>>

Tick ==
    /\ now < MaxNow
    /\ now' = now + 1
    /\ UNCHANGED <<cv, call, pc, ret, exc, stdout, removed>>

NextTwice == RenderLogged \/ Tick

SpecTwice == InitTwice /\ [][NextTwice]_vars

\* C18: two calls of _render on the same maintenances and cluster view in
\* the same mode returned the same text, whenever they were made.
C18_RenderDeterministic ==
    \A i, j \in 1..Len(stdout) :
        stdout[i].mode = stdout[j].mode => stdout[i].result = stdout[j].result

(***************************************************************************)
(* MaintenanceCommand.apply.  apply_maintenance and the cluster view read  *)
(* after it are outside the module: `outcome` says whether                 *)
(* apply_maintenance returned and which maintenance it then created.  The  *)
(* sequencer_node_indexes and sequencer_node_names arguments are left at   *)
(* their default None.                                                     *)
(***************************************************************************)
Lower ==
    ("may-disappear" :> "may-disappear") @@ ("DRAINED" :> "drained") @@
    ("drain" :> "drain")

_parse_shard_target_state(tgt_state) ==
    IF Lower[tgt_state] = "may-disappear" THEN Return("MAY_DISAPPEAR")
    ELSE IF Lower[tgt_state] = "drained" THEN Return("DRAINED")
    ELSE Raise("ValueError")

\* parse_shards: a string that is not shard notation is a parse error.
ShardNotation == {"N0:S1"}

parse_shards(shard_strings) ==
    IF \E x \in shard_strings : x \notin ShardNotation
    THEN Raise("MalformedShardNotation")
    ELSE Return(shard_strings)

NodeNotFound == Message("Node not found", "red")

CannotApply == Message("Cannot apply maintenance", "red")

ApplyResult(e, printed, cluster_view) ==
    [exc |-> e, printed |-> printed, cv |-> cluster_view]

apply(cluster_view, args, outcome) ==
    LET names == IF args.node_names # <<>>
                 THEN ResolveNodeNames(cluster_view, args.node_names[1])
                 ELSE Return({})
        all_node_indexes ==
            (IF args.node_indexes # <<>> THEN args.node_indexes[1] ELSE {})
                \cup (IF names.exc = NoExc THEN names.val ELSE {})
        parsed == IF args.shards # <<>> THEN parse_shards(args.shards[1])
                  ELSE Return({})
        shard_target_state == _parse_shard_target_state(args.shard_target_state)
        priority == _parse_priority(args.priority)
        created == [outcome.view EXCEPT
                       !.group_id = GroupIds[Len(cluster_view.mvs) + 1]]
        refreshed == ClusterView(Append(cluster_view.mvs, created),
                                 cluster_view.nodes)
        text == _render(<<created>>, refreshed, "EXPANDED")
    IN  IF \/ names.exc = "NodeNotFoundError"
           \/ \E ni \in all_node_indexes : ni \notin DOMAIN cluster_view.nodes
        THEN ApplyResult(NoExc, <<NodeNotFound>>, cluster_view)
        ELSE IF parsed.exc # NoExc
        THEN ApplyResult(parsed.exc, <<>>, cluster_view)
        ELSE IF \/ shard_target_state.exc # NoExc
                \/ priority.exc # NoExc
                \/ ~outcome.ok
        THEN ApplyResult(NoExc, <<CannotApply>>, cluster_view)
        ELSE IF text.exc # NoExc
        THEN ApplyResult(text.exc, <<>>, refreshed)
        ELSE ApplyResult(NoExc, <<Text("EXPANDED", text.val)>>, refreshed)

(***************************************************************************)
(* SpecApply: one apply command run against a snapshot of at most one      *)
(* maintenance.                                                            *)
(***************************************************************************)
ApplyArgs ==
    [node_indexes : Opt({{0}, {7}}),
     node_names : Opt({{"n0"}, {UnknownNodeName}}),
     shards : Opt({{"N0:S1"}, {"N0S1"}}),
     shard_target_state : DOMAIN Lower,
     priority : {<<"medium">>, <<"urgent">>}]

ApplyOutcomes ==
    [ok : BOOLEAN,
     view : { InProgress("carol", FALSE, "MEDIUM", <<Draining(0, 1)>>, <<>>),
              Blocked("carol", FALSE, "MEDIUM", <<Draining(0, 1)>>, <<0>>) }]

InitApply == InitCommand /\ cv \in SmallClusterViews

Apply ==
    /\ call.op = "idle"
    /\ pc = "idle"
    /\ \E args \in ApplyArgs, outcome \in ApplyOutcomes :
          \E r \in {apply(cv, args, outcome)} :
              /\ call' = [op |-> "apply", args |-> args]
              /\ exc' = r.exc
              /\ stdout' = stdout \o r.printed
              /\ cv' = r.cv
    /\ pc' = "done"
    /\ UNCHANGED <<now, ret, removed>>

NextApply == Apply

SpecApply == InitApply /\ [][NextApply]_vars

\* The apply command ran with a node name or index the cluster view does
\* not have, a shard string that is not shard notation, or a priority or
\* target state string that does not parse.
ApplyGivenInvalid ==
    /\ call.op = "apply"
    /\ pc = "done"
    /\ \/ call.args.node_names = <<{UnknownNodeName}>>
       \/ call.args.node_indexes = <<{7}>>
       \/ call.args.shards = <<{"N0S1"}>>
       \/ call.args.shard_target_state = "drain"
       \/ call.args.priority = <<"urgent">>

\* C19: an apply command given an unknown node, a malformed shard string or
\* a malformed priority or target state leaves with an exception, and has
\* printed nothing.
C19_TypedFailures ==
    ApplyGivenInvalid =>
        /\ exc \in {"NodeNotFoundError", "ValueError", "MalformedShardNotation"}
        /\ stdout = <<>>

\* The sections show printed for the maintenance `id`.
SectionsShown(id) ==
    LET text == stdout[1].text
    IN  text[CHOOSE i \in 1..Len(text) : text[i][1].body.id = id]

\* C20: whatever the other flag is, show with expand_shards prints the
\* shards of every maintenance it prints one row per shard, and show with
\* show_safety_check_results prints the "Safety Check Impact" section of
\* every BLOCKED_UNTIL_SAFE maintenance it prints.
C20_ShowFlagsIndependent ==
    (call.op = "show" /\ pc = "done" /\ exc = NoExc) =>
        \A id \in IdsShown :
            LET secs == SectionsShown(id)
            IN  /\ call.args.expand_shards =>
                      \A i \in 1..Len(secs) :
                          secs[i].title = "Shard Maintenances" =>
                              secs[i].body.expand_shards
                /\ (/\ call.args.show_safety_check_results
                    /\ ViewOf(id).overall_status = "BLOCKED_UNTIL_SAFE") =>
                      \E i \in 1..Len(secs) :
                          secs[i].title = "Safety Check Impact"

\* What the filter gives the remove command for its arguments and the
\* snapshot it took.
SelectedByRemove ==
    _filter_maintenance_views(
        cv.mvs, cv,
        CriteriaOf(call.args, _parse_priority(call.args.priority).val,
                   <<call.args.include_internal_maintenances>>)).val

\* The confirmation prompt of the remove command was answered with `answer`.
PromptReturned(answer) ==
    /\ call.op = "remove"
    /\ "confirm_prompt" \in DOMAIN call
    /\ call.confirm_prompt = answer

\* C21: a remove command invokes remove_maintenances at most once; when it
\* does, the filter selected at least one maintenance of the snapshot, the
\* selection was printed in the expanded rendering, the confirmation prompt
\* returned true, and the request holds exactly the group ids of the
\* selection.  A command whose selection is empty or whose prompt was
\* declined makes no request.
C21_RemoveOnceAfterConfirm ==
    /\ Len(removed) <= 1
    /\ removed # <<>> =>
          /\ PromptReturned(TRUE)
          /\ SelectedByRemove # <<>>
          /\ removed[1] = GroupIdsOf(SelectedByRemove)
          /\ Len(stdout) >= 2
          /\ stdout[2].kind = "rendering"
          /\ stdout[2].mode = "EXPANDED"
          /\ PrintedIds(stdout[2]) = removed[1]
    /\ (/\ call.op = "remove"
        /\ pc = "done"
        /\ SelectedByRemove = <<>> \/ PromptReturned(FALSE)) => removed = <<>>

C21_Witness ==
    /\ PromptReturned(TRUE)
    /\ pc = "done"
    /\ Len(cv.mvs) > Len(SelectedByRemove)
    /\ Len(removed) = 1
    /\ Len(removed[1]) >= 1
    /\ removed[1] = GroupIdsOf(SelectedByRemove)

\* The nodes that have an entry in a shard table, aggregated or per shard.
NodesIn(table) == {table[i].node_index : i \in 1..Len(table)}

RECURSIVE Sum(_)
Sum(numbers) ==
    IF numbers = <<>> THEN 0 ELSE Head(numbers) + Sum(Tail(numbers))

\* The per-shard view has as many shard rows as the aggregated view counts
\* in its CURRENT STATE chips.
SameShardCount ==
    LET agg == ShardTable("EXPANDED")
        exp == ShardTable("EXPANDED_WITH_SHARDS")
    IN  Sum([i \in 1..Len(exp) |-> Len(exp[i].shards_table)]) =
            Sum([i \in 1..Len(agg) |-> SumCounts(agg[i].current_state)])

\* C22: for a maintenance that affects shards, the nodes with a sub-table in
\* the per-shard view are the nodes with a row in the aggregated view, which
\* are the affected storage nodes of the maintenance; the per-shard rows are
\* as many as the aggregated chips count, and every sub-table has a row.
C22_SameNodesInBothViews ==
    (/\ Rendered("EXPANDED")
     /\ Rendered("EXPANDED_WITH_SHARDS")
     /\ cv.mvs[1].affects_shards) =>
        LET agg == ShardTable("EXPANDED")
            exp == ShardTable("EXPANDED_WITH_SHARDS")
        IN  /\ NodesIn(agg) = Range(cv.mvs[1].affected_storage_node_indexes)
            /\ NodesIn(exp) = NodesIn(agg)
            /\ SameShardCount
            /\ \A i \in 1..Len(exp) : exp[i].shards_table # <<>>

=============================================================================
